---- MODULE Spec2Model ----
(***************************************************************************)
(* Model of the ICSEF interactive shell core:                              *)
(*   - icssploit/printer.py: printer_queue and PrinterThread.run            *)
(*   - src/interpreter/base_interpreter.py: BaseInterpreter (parse_line,   *)
(*     get_command_handler, start).                                        *)
(* Strings are sequences of one-character strings.                         *)
(***************************************************************************)
EXTENDS Integers, Sequences, FiniteSets, TLC

\* ---------------------------------------------------------------- bounds
\* producer threads alive from the start in the channel specification
NProducers == 2
\* requests each producer thread enqueues
K == 2
\* producer threads a command handler may spawn in the shell specification
MaxSpawn == 1
\* requests each handler-spawned thread enqueues
Burst == 1
\* loop iterations that read a line or are interrupted while reading
MaxIter == 1
\* length of the lines given to parse_line
MaxLineLen == 5
\* length of the line buffer a completion is requested on
MaxBuf == 3

VARIABLES
    queue,            \* printer_queue: the items waiting in the queue
    unfinished_tasks, \* printer_queue.unfinished_tasks, what join() waits on
    wpc,              \* PrinterThread.run position: get / print / task_done / dead
    cur,              \* the request run() holds between get() and task_done()
    written,          \* requests PrinterThread has written with print(), in order
    arrived,          \* history: every request put on printer_queue, in arrival order
    pc,               \* BaseInterpreter.start position (main thread)
    command,          \* start(): command of the line being processed
    args,             \* start(): args of the line being processed
    handler,          \* start(): command_handler
    err,              \* the icssploitException message being handled
    after,            \* what follows the finally clause: loop / break / raise
    exc,              \* the exception in flight in the main thread, or "none"
    iter,             \* loop iterations begun so far
    intr,             \* number of KeyboardInterrupts raised so far
    outcome,          \* history: how the current iteration left the try body
    calls,            \* history: handler invocations of the current iteration
    current_module,   \* self.current_module
    spawned,          \* producer threads started so far
    sent,             \* per producer thread: requests it has enqueued
    mainSeq,          \* requests the main thread has enqueued
    drained,          \* history: Len(arrived) when join() last returned
    self_attrs,       \* dir(self): the attribute names of the shell object
    parse_in,         \* the line last given to parse_line
    parse_out,        \* what parse_line returned for it
    listed,           \* what commands() last returned
    epc,              \* line editor: idle / pulling (a completion session is open)
    line_buffer,      \* readline.get_line_buffer()
    begidx,           \* readline.get_begidx()
    endidx,           \* readline.get_endidx()
    completion_matches, \* self.completion_matches
    cstate,           \* the state argument of the last call of complete()
    ctext,            \* the text argument of the last call of complete()
    cresult,          \* what the last call of complete() returned
    cfun,             \* history: the complete_function chosen by the state-0 call
    computes          \* history: candidate lists computed in the open session

vars == <<queue, unfinished_tasks, wpc, cur, written, arrived, pc, command, args,
          handler, err, after, exc, iter, intr, outcome, calls, current_module,
          spawned, sent, mainSeq, drained, self_attrs, parse_in, parse_out, listed,
          epc, line_buffer, begidx, endidx, completion_matches, cstate, ctext,
          cresult, cfun, computes>>

chanVars == <<queue, unfinished_tasks, arrived>>
workerVars == <<wpc, cur, written>>
lineVars == <<command, args, handler, err, calls>>
prodVars == <<spawned, sent>>
pureVars == <<parse_in, parse_out, listed>>
sessionVars == <<epc, line_buffer, begidx, endidx, completion_matches, cstate,
                 ctext, cresult, cfun, computes>>
editVars == <<self_attrs, pureVars, sessionVars>>
shellVars == <<queue, unfinished_tasks, wpc, cur, written, arrived, pc, command,
               args, handler, err, after, exc, iter, intr, outcome, calls,
               spawned, sent, mainSeq, drained>>

\* ---------------------------------------------------------------- strings
Whitespace == {" ", "\t", "\n"}

RECURSIVE lstrip(_)
lstrip(s) == IF s # <<>> /\ Head(s) \in Whitespace THEN lstrip(Tail(s)) ELSE s

RECURSIVE rstrip(_)
rstrip(s) ==
    IF s # <<>> /\ s[Len(s)] \in Whitespace THEN rstrip(SubSeq(s, 1, Len(s) - 1)) ELSE s

strip(s) == rstrip(lstrip(s))

\* index of the first occurrence of character c in s at or after i, 0 if none
RECURSIVE find(_, _, _)
find(s, c, i) ==
    IF i > Len(s) THEN 0 ELSE IF s[i] = c THEN i ELSE find(s, c, i + 1)

\* str.partition(sep) for a one-character separator
partition(s, sep) ==
    LET i == find(s, sep, 1) IN
    IF i = 0 THEN <<s, <<>>, <<>>>>
    ELSE <<SubSeq(s, 1, i - 1), <<sep>>, SubSeq(s, i + 1, Len(s))>>

parse_line(line) ==
    LET p == partition(strip(line), " ") IN <<p[1], strip(p[3])>>

\* ---------------------------------------------------------------- objects
CommandPrefix == <<"c", "o", "m", "m", "a", "n", "d", "_">>

UnknownPrefix ==
    <<"U", "n", "k", "n", "o", "w", "n", " ", "c", "o", "m", "m", "a", "n",
      "d", ":", " ", "'">>

\* "Unknown command: '{}'".format(command)
UnknownMessage_without_text(c) == UnknownPrefix \o <<"'">>

UnknownMessage(c) == UnknownPrefix \o c \o <<"'">>

CompletePrefix == <<"c", "o", "m", "p", "l", "e", "t", "e", "_">>

\* the built-in handlers and completers of the shell, and those of the module
SelfAttrs ==
    {CommandPrefix \o <<"p">>, CommandPrefix \o <<"p", "q">>,
     CommandPrefix \o <<"q">>, CompletePrefix \o <<"p">>}
ModuleAttrs ==
    {CommandPrefix \o <<"p">>, CommandPrefix \o <<"m">>,
     CompletePrefix \o <<"m">>}

\* a shell one of whose built-in command names contains an underscore
UnderscoreAttrs == {CommandPrefix \o <<"a", "_", "b">>, CommandPrefix \o <<"p">>}

ShellClasses == {SelfAttrs, UnderscoreAttrs}

Modules == {"None", "module"}

Attrs(obj) ==
    CASE obj = "self" -> self_attrs
      [] obj = "module" -> ModuleAttrs
      [] OTHER -> {}

\* getattr(obj, name): the bound method, or AttributeError
getattr(obj, name) ==
    IF name \in Attrs(obj)
    THEN [ok |-> TRUE, obj |-> obj, name |-> name]
    ELSE [ok |-> FALSE, obj |-> "AttributeError", name |-> name]

NoHandler == [ok |-> FALSE, obj |-> "", name |-> <<>>]

\* the attribute self.completion_matches before the first state-0 call, and the
\* None that complete() returns past the end of the list
Unset == <<"unset">>
None == <<"None">>

get_command_handler_module_first(c, module) ==
    LET name == CommandPrefix \o c
        a == getattr(module, name)
        b == getattr("self", name)
    IN  IF a.ok THEN [raised |-> FALSE, value |-> a, msg |-> <<>>]
        ELSE IF b.ok THEN [raised |-> FALSE, value |-> b, msg |-> <<>>]
        ELSE [raised |-> TRUE, value |-> NoHandler, msg |-> UnknownMessage(c)]

get_command_handler_no_raise(c, module) ==
    LET name == CommandPrefix \o c
        a == getattr("self", name)
        b == getattr(module, name)
    IN  IF a.ok THEN [raised |-> FALSE, value |-> a, msg |-> <<>>]
        ELSE [raised |-> FALSE, value |-> b, msg |-> <<>>]

get_command_handler(c, module) ==
    LET name == CommandPrefix \o c
        a == getattr("self", name)
        b == getattr(module, name)
    IN  IF a.ok THEN [raised |-> FALSE, value |-> a, msg |-> <<>>]
        ELSE IF b.ok THEN [raised |-> FALSE, value |-> b, msg |-> <<>>]
        ELSE [raised |-> TRUE, value |-> NoHandler, msg |-> UnknownMessage(c)]

\* ---------------------------------------------------------------- commands()
\* the characters of attribute names in code-point order ('_' precedes the letters)
CharOrder == <<"_", "a", "b", "c", "d", "e", "l", "m", "n", "o", "p", "q", "t">>

Ord(c) == CHOOSE i \in 1..Len(CharOrder) : CharOrder[i] = c

\* s < t as Python compares strings
RECURSIVE StrLess(_, _)
StrLess(s, t) ==
    IF t = <<>> THEN FALSE
    ELSE IF s = <<>> THEN TRUE
    ELSE IF Head(s) = Head(t) THEN StrLess(Tail(s), Tail(t))
    ELSE Ord(Head(s)) < Ord(Head(t))

\* dir(obj): the attribute names, sorted
RECURSIVE sorted(_)
sorted(S) ==
    IF S = {} THEN <<>>
    ELSE LET m == CHOOSE x \in S : \A y \in S \ {x} : StrLess(x, y)
         IN <<m>> \o sorted(S \ {m})

dir(obj) == sorted(Attrs(obj))

startswith(s, prefix) ==
    Len(prefix) <= Len(s) /\ SubSeq(s, 1, Len(prefix)) = prefix

\* index of the last occurrence of character c in s at or before i, 0 if none
RECURSIVE rfind(_, _, _)
rfind(s, c, i) ==
    IF i < 1 THEN 0 ELSE IF s[i] = c THEN i ELSE rfind(s, c, i - 1)

\* s.rsplit(sep).pop(): the piece after the last separator
rsplit_pop(s, sep) == SubSeq(s, rfind(s, sep, Len(s)) + 1, Len(s))

IsCommandName(n) == startswith(n, CommandPrefix)
LastPiece(n) == rsplit_pop(n, "_")

\* [command.rsplit("_").pop() for command in dir(self) if command.startswith("command_")]
commands ==
    LET names == SelectSeq(dir("self"), IsCommandName)
    IN  [i \in 1..Len(names) |-> LastPiece(names[i])]

suggested_commands == commands

\* ---------------------------------------------------------------- inputs
InputLines ==
    { <<" ">>,
      <<"p">>,
      <<" ", "m", " ", "a">>,
      <<"x">> }

DomainMessage == <<"e">>

Producers == 1..NProducers
Spawnable == 1..MaxSpawn
MainThread == 0

NoReq == [content |-> 0, thread |-> -1]
Request(n, t) == [content |-> n, thread |-> t]

\* ---------------------------------------------------------------- channel
\* queue.Queue.put / get on the FIFO deque
put_front(q, item) == <<item>> \o q

put(q, item) == Append(q, item)

get_lifo(q) == <<q[Len(q)], SubSeq(q, 1, Len(q) - 1)>>

get(q) == <<Head(q), Tail(q)>>

\* queue.Queue.join(): blocks while unfinished_tasks is non-zero
join_returns_when_empty(q, unfinished) == q = <<>>

join_returns(q, unfinished) == unfinished = 0

Enqueue(item) ==
    /\ queue' = put(queue, item)
    /\ unfinished_tasks' = unfinished_tasks + 1
    /\ arrived' = Append(arrived, item)

\* ---------------------------------------------------------------- producers
ProducerPut(p) ==
    /\ p \in spawned
    /\ sent[p] < K
    /\ Enqueue(Request(sent[p] + 1, p))
    /\ sent' = [sent EXCEPT ![p] = @ + 1]
    /\ UNCHANGED <<editVars, workerVars, pc, lineVars, after, exc, iter, intr, outcome,
                   current_module, spawned, mainSeq, drained>>

\* a thread started by a command handler enqueues its requests
SpawnedPut(p) ==
    /\ p \in spawned
    /\ sent[p] < Burst
    /\ Enqueue(Request(sent[p] + 1, p))
    /\ sent' = [sent EXCEPT ![p] = @ + 1]
    /\ UNCHANGED <<editVars, workerVars, pc, lineVars, after, exc, iter, intr, outcome,
                   current_module, spawned, mainSeq, drained>>

\* ---------------------------------------------------------------- PrinterThread.run
WorkerGet ==
    /\ wpc = "get"
    /\ queue # <<>>
    /\ cur' = get(queue)[1]
    /\ queue' = get(queue)[2]
    /\ wpc' = "print"
    /\ UNCHANGED <<editVars, unfinished_tasks, arrived, written, pc, lineVars, after, exc, iter,
                   intr, outcome, current_module, prodVars, mainSeq, drained>>

\* print() either writes the request or raises (destination closed); run() has
\* no handler for the exception, so it leaves run() and the thread ends
WorkerPrint ==
    /\ wpc = "print"
    /\ \E ok \in BOOLEAN :
         IF ok
         THEN /\ written' = Append(written, cur)
              /\ wpc' = "task_done"
         ELSE /\ written' = written
              /\ wpc' = "dead"
    /\ UNCHANGED <<editVars, chanVars, cur, pc, lineVars, after, exc, iter, intr, outcome,
                   current_module, prodVars, mainSeq, drained>>

WorkerTaskDone_unacknowledged ==
    /\ wpc = "task_done"
    /\ unfinished_tasks' = unfinished_tasks
    /\ cur' = NoReq
    /\ wpc' = "get"
    /\ UNCHANGED <<editVars, queue, arrived, written, pc, lineVars, after, exc, iter,
                   intr, outcome, current_module, prodVars, mainSeq, drained>>

WorkerTaskDone ==
    /\ wpc = "task_done"
    /\ unfinished_tasks' = unfinished_tasks - 1
    /\ cur' = NoReq
    /\ wpc' = "get"
    /\ UNCHANGED <<editVars, queue, arrived, written, pc, lineVars, after, exc, iter, intr,
                   outcome, current_module, prodVars, mainSeq, drained>>

Worker == WorkerGet \/ WorkerPrint \/ WorkerTaskDone

\* ---------------------------------------------------------------- BaseInterpreter.start
\* utils.print_error / print_info / print_status: one request put on printer_queue
\* by the calling thread
utils_print(t) ==
    /\ Enqueue(Request(mainSeq + 1, t))
    /\ mainSeq' = mainSeq + 1

\* which except clause of start() handles an exception raised in the try body
except_clause_no_domain(e) ==
    CASE e = "EOFError" -> "except_eof"
      [] e = "KeyboardInterrupt" -> "except_kbd"
      [] OTHER -> "none"

except_clause_no_interrupt(e) ==
    CASE e = "icssploitException" -> "except_err"
      [] e = "EOFError" -> "except_eof"
      [] OTHER -> "none"

except_clause(e) ==
    CASE e = "icssploitException" -> "except_err"
      [] e = "EOFError" -> "except_eof"
      [] e = "KeyboardInterrupt" -> "except_kbd"
      [] OTHER -> "none"

\* how control leaves an except clause: only the EOFError clause breaks
after_clause_no_break(clause) == "loop"

after_clause_always_break(clause) == "break"

after_clause(clause) == IF clause = "except_eof" THEN "break" ELSE "loop"

\* every exit of the try statement (fall through, continue, break, raise) runs
\* the finally clause
leave_try_continue_skips(how) == IF how = "continue" THEN "read" ELSE "finally_join"

leave_try(how) == "finally_join"

\* where control goes once the finally clause is done
after_finally(a) ==
    CASE a = "loop" -> "read"
      [] a = "break" -> "Terminated"
      [] OTHER -> "Propagated"

TryBody == {"read", "parsed", "dispatch", "handler"}
ExceptClauses == {"except_err", "except_eof", "except_kbd"}
Joins == {"initial_join", "finally_join"}
Ended == {"Terminated", "Propagated"}

\* an exception e raised in the try body
RaiseInTry(e) ==
    LET c == except_clause(e) IN
    /\ exc' = e
    /\ IF c = "none"
       THEN /\ pc' = leave_try("raise")
            /\ after' = "raise"
       ELSE /\ pc' = c
            /\ after' = after

\* line 96: print(self.banner), written directly
PrintBanner ==
    /\ pc = "banner"
    /\ pc' = "initial_join"
    /\ UNCHANGED <<editVars, chanVars, workerVars, lineVars, after, exc, iter, intr, outcome,
                   current_module, prodVars, mainSeq, drained>>

\* line 97: printer_queue.join()
InitialJoin ==
    /\ pc = "initial_join"
    /\ join_returns(queue, unfinished_tasks)
    /\ pc' = "read"
    /\ drained' = Len(arrived)
    /\ UNCHANGED <<editVars, chanVars, workerVars, lineVars, after, exc, iter, intr, outcome,
                   current_module, prodVars, mainSeq>>

\* lines 100-104: command, args = self.parse_line(input(self.prompt))
ReadLine(line) ==
    /\ pc = "read"
    /\ iter < MaxIter
    /\ iter' = iter + 1
    /\ command' = parse_line(line)[1]
    /\ args' = parse_line(line)[2]
    /\ handler' = NoHandler
    /\ err' = <<>>
    /\ calls' = <<>>
    /\ outcome' = "none"
    /\ exc' = "none"
    /\ pc' = "parsed"
    /\ UNCHANGED <<editVars, chanVars, workerVars, after, intr, current_module, prodVars,
                   mainSeq, drained>>

\* input() raises EOFError
ReadEOF ==
    /\ pc = "read"
    /\ calls' = <<>>
    /\ outcome' = "eof"
    /\ RaiseInTry("EOFError")
    /\ UNCHANGED <<editVars, chanVars, workerVars, command, args, handler, err, iter, intr,
                   current_module, prodVars, mainSeq, drained>>

\* lines 106-108: empty command continues, otherwise the handler is resolved
Resolve ==
    /\ pc = "parsed"
    /\ IF command = <<>>
       THEN /\ outcome' = "empty"
            /\ pc' = leave_try("continue")
            /\ after' = "loop"
            /\ UNCHANGED <<handler, err, exc>>
       ELSE LET r == get_command_handler(command, current_module) IN
            IF r.raised
            THEN /\ outcome' = "unknown"
                 /\ err' = r.msg
                 /\ RaiseInTry("icssploitException")
                 /\ UNCHANGED handler
            ELSE /\ handler' = r.value
                 /\ pc' = "dispatch"
                 /\ UNCHANGED <<outcome, err, after, exc>>
    /\ UNCHANGED <<editVars, chanVars, workerVars, command, args, calls, iter, intr,
                   current_module, prodVars, mainSeq, drained>>

\* line 109: command_handler(args) is called
Dispatch ==
    /\ pc = "dispatch"
    /\ calls' = Append(calls, [handler |-> handler, arg |-> args])
    /\ pc' = "handler"
    /\ UNCHANGED <<editVars, chanVars, workerVars, command, args, handler, err, after, exc,
                   iter, intr, outcome, current_module, prodVars, mainSeq,
                   drained>>

\* the running handler starts a thread that will enqueue K requests
HandlerSpawn(p) ==
    /\ pc = "handler"
    /\ p \in Spawnable \ spawned
    /\ spawned' = spawned \cup {p}
    /\ UNCHANGED <<editVars, chanVars, workerVars, pc, lineVars, after, exc, iter, intr,
                   outcome, current_module, sent, mainSeq, drained>>

\* the running handler swaps the active module
HandlerSetModule(m) ==
    /\ pc = "handler"
    /\ m # current_module
    /\ current_module' = m
    /\ UNCHANGED <<editVars, chanVars, workerVars, pc, lineVars, after, exc, iter, intr,
                   outcome, prodVars, mainSeq, drained>>

\* the handler returns: the try body falls through to finally
HandlerReturn ==
    /\ pc = "handler"
    /\ outcome' = "success"
    /\ pc' = leave_try("fall")
    /\ after' = "loop"
    /\ UNCHANGED <<editVars, chanVars, workerVars, lineVars, exc, iter, intr, current_module,
                   prodVars, mainSeq, drained>>

HandlerExceptions == {"icssploitException", "EOFError", "Exception"}

\* the handler raises
HandlerRaise(e) ==
    /\ pc = "handler"
    /\ outcome' = CASE e = "icssploitException" -> "domain"
                    [] e = "EOFError" -> "eof"
                    [] OTHER -> "fault"
    /\ err' = IF e = "icssploitException" THEN DomainMessage ELSE err
    /\ RaiseInTry(e)
    /\ UNCHANGED <<editVars, chanVars, workerVars, command, args, handler, calls, iter, intr,
                   current_module, prodVars, mainSeq, drained>>

\* lines 110-111: utils.print_error(err)
ExceptError ==
    /\ pc = "except_err"
    /\ utils_print(MainThread)
    /\ exc' = "none"
    /\ after' = after_clause("except_err")
    /\ pc' = leave_try("fall")
    /\ UNCHANGED <<editVars, workerVars, lineVars, iter, intr, outcome, current_module,
                   prodVars, drained>>

\* lines 112-115: utils.print_info(); utils.print_status("icssploit stopped"); break
ExceptEOF ==
    /\ pc = "except_eof"
    /\ queue' = put(put(queue, Request(mainSeq + 1, MainThread)),
                    Request(mainSeq + 2, MainThread))
    /\ arrived' = arrived \o <<Request(mainSeq + 1, MainThread),
                               Request(mainSeq + 2, MainThread)>>
    /\ unfinished_tasks' = unfinished_tasks + 2
    /\ mainSeq' = mainSeq + 2
    /\ exc' = "none"
    /\ after' = after_clause("except_eof")
    /\ pc' = leave_try("break")
    /\ UNCHANGED <<editVars, workerVars, lineVars, iter, intr, outcome, current_module,
                   prodVars, drained>>

\* lines 116-117: utils.print_info()
ExceptInterrupt ==
    /\ pc = "except_kbd"
    /\ utils_print(MainThread)
    /\ exc' = "none"
    /\ after' = after_clause("except_kbd")
    /\ pc' = leave_try("fall")
    /\ UNCHANGED <<editVars, workerVars, lineVars, iter, intr, outcome, current_module,
                   prodVars, drained>>

\* lines 118-119: printer_queue.join(), then loop, break or re-raise
FinallyJoin ==
    /\ pc = "finally_join"
    /\ join_returns(queue, unfinished_tasks)
    /\ drained' = Len(arrived)
    /\ pc' = after_finally(after)
    /\ UNCHANGED <<editVars, chanVars, workerVars, lineVars, after, exc, iter, intr, outcome,
                   current_module, prodVars, mainSeq>>

\* KeyboardInterrupt is raised in the main thread wherever it is executing:
\* in the try body it reaches the except clause; in an except clause it runs the
\* finally clause and propagates; outside the try statement or in the finally
\* clause nothing catches it and it leaves start()
KeyboardInterrupt ==
    /\ pc \notin Ended
    /\ pc = "read" => iter < MaxIter
    /\ iter' = IF pc = "read" THEN iter + 1 ELSE iter
    /\ intr' = intr + 1
    /\ IF pc \in TryBody
       THEN /\ outcome' = "interrupt"
            /\ RaiseInTry("KeyboardInterrupt")
       ELSE /\ exc' = "KeyboardInterrupt"
            /\ outcome' = outcome
            /\ IF pc \in ExceptClauses
               THEN /\ pc' = leave_try("raise")
                    /\ after' = "raise"
               ELSE /\ pc' = "Propagated"
                    /\ after' = after
    /\ UNCHANGED <<editVars, chanVars, workerVars, lineVars, current_module, prodVars,
                   mainSeq, drained>>

Shell ==
    \/ PrintBanner
    \/ InitialJoin
    \/ \E line \in InputLines : ReadLine(line)
    \/ ReadEOF
    \/ Resolve
    \/ Dispatch
    \/ \E p \in Spawnable : HandlerSpawn(p)
    \/ \E m \in Modules : HandlerSetModule(m)
    \/ HandlerReturn
    \/ \E e \in HandlerExceptions : HandlerRaise(e)
    \/ ExceptError
    \/ ExceptEOF
    \/ ExceptInterrupt
    \/ FinallyJoin
    \/ KeyboardInterrupt

\* ---------------------------------------------------------------- BaseInterpreter.complete
\* readline.set_completer_delims(' \t\n;')
Delims == {" ", "\t", "\n", ";"}

\* readline: the word being completed starts after the last delimiter before
\* the cursor
readline_begidx(line, point) ==
    CHOOSE i \in 0..point :
        /\ i = 0 \/ line[i] \in Delims
        /\ \A j \in (i + 1)..point : line[j] \notin Delims

NoFunction == [kind |-> "none", name |-> <<>>]
default_completer == [kind |-> "default", name |-> <<>>]
raw_command_completer == [kind |-> "raw", name |-> <<>>]

\* start_index = readline.get_begidx() - stripped
start_index_unadjusted(original_line, idx) == idx

start_index(original_line, idx) ==
    idx - (Len(original_line) - Len(lstrip(original_line)))

\* getattr(self, 'complete_' + cmd), default_completer on AttributeError
lookup_completer_module_too(cmd, module) ==
    LET a == getattr("self", CompletePrefix \o cmd)
        b == getattr(module, CompletePrefix \o cmd)
    IN  IF a.ok THEN [kind |-> "method", name |-> a.name]
        ELSE IF b.ok THEN [kind |-> "method", name |-> b.name]
        ELSE default_completer

lookup_completer(cmd, module) ==
    LET a == getattr("self", CompletePrefix \o cmd)
    IN  IF a.ok THEN [kind |-> "method", name |-> a.name] ELSE default_completer

\* lines 134-144: the choice of complete_function
complete_function(original_line, bidx, module) ==
    IF start_index(original_line, bidx) > 0
    THEN LET cmd == parse_line(lstrip(original_line))[1]
         IN  IF cmd = <<>> THEN default_completer ELSE lookup_completer(cmd, module)
    ELSE raw_command_completer

Rep(n) == [i \in 1..n |-> "#"]

\* what a complete_<cmd> method of the shell returns: candidates that depend
\* on each of its arguments
completer_result(name, text, line, s, e) == <<name, text, line, Rep(s), Rep(e)>>

\* list(filter(lambda entry: entry.startswith(text), self.suggested_commands()))
raw_matches_containing(text) ==
    LET Has(entry) ==
            \E i \in 1..(Len(entry) - Len(text) + 1) :
                SubSeq(entry, i, i + Len(text) - 1) = text
    IN  SelectSeq(suggested_commands, Has)

raw_matches(text) ==
    LET Starts(entry) == startswith(entry, text)
    IN  SelectSeq(suggested_commands, Starts)

\* line 146: complete_function(text, line, start_index, end_index)
call_complete_function(f, text, original_line, bidx, eidx) ==
    CASE f.kind = "raw" -> raw_matches(text)
      [] f.kind = "method" ->
            completer_result(f.name, text, lstrip(original_line),
                             start_index(original_line, bidx),
                             start_index(original_line, eidx))
      [] OTHER -> <<>>

\* line 127: the candidate list is computed when state == 0
computes_list_always(state) == TRUE

computes_list(state) == state = 0

\* lines 148-151: self.completion_matches[state], None on IndexError
match_at(matches, state) ==
    IF state + 1 <= Len(matches) THEN matches[state + 1] ELSE None

\* complete(text, state)
Complete(text, state) ==
    LET f == complete_function(line_buffer, begidx, current_module)
        m == IF computes_list(state)
             THEN call_complete_function(f, text, line_buffer, begidx, endidx)
             ELSE completion_matches
    IN  /\ completion_matches' = m
        /\ computes' = IF computes_list(state) THEN computes + 1 ELSE computes
        /\ cfun' = IF computes_list(state) THEN f ELSE cfun
        /\ cresult' = match_at(m, state)
        /\ cstate' = state
        /\ ctext' = text
        /\ epc' = "pulling"
        /\ UNCHANGED <<shellVars, current_module, self_attrs, pureVars,
                       line_buffer, begidx, endidx>>

\* the text readline passes: the word before the cursor
Word == SubSeq(line_buffer, begidx + 1, endidx)

OtherText == <<"q">>

\* the line editor opens the session with state 0
CompleteFirst ==
    /\ epc = "idle"
    /\ Complete(Word, 0)

\* and pulls the next candidate with the next state; the model also pulls
\* once more after the None
CompleteNext(text) ==
    /\ epc = "pulling"
    /\ cstate <= Len(completion_matches)
    /\ Complete(text, cstate + 1)

\* ---------------------------------------------------------------- pure calls
LineAlphabet == {"a", "b", " ", "\t"}

Lines == UNION {[1..n -> LineAlphabet] : n \in 0..MaxLineLen}

\* no call of parse_line has returned yet
Pending == <<<<"pending">>>>

\* parse_line(parse_in) is called
ParseLine ==
    /\ parse_out = Pending
    /\ parse_out' = parse_line(parse_in)
    /\ UNCHANGED <<shellVars, current_module, self_attrs, parse_in, listed,
                   sessionVars>>

\* commands() is called
Commands ==
    /\ listed = <<>>
    /\ listed' = commands
    /\ UNCHANGED <<shellVars, current_module, self_attrs, parse_in, parse_out,
                   sessionVars>>

\* ---------------------------------------------------------------- specifications
InitCommon ==
    /\ queue = <<>>
    /\ unfinished_tasks = 0
    /\ wpc = "get"
    /\ cur = NoReq
    /\ written = <<>>
    /\ arrived = <<>>
    /\ pc = "banner"
    /\ command = <<>>
    /\ args = <<>>
    /\ handler = NoHandler
    /\ err = <<>>
    /\ after = "loop"
    /\ exc = "none"
    /\ iter = 0
    /\ intr = 0
    /\ outcome = "none"
    /\ calls = <<>>
    /\ mainSeq = 0
    /\ drained = 0

\* no completion has been requested
InitIdle ==
    /\ listed = <<>>
    /\ epc = "idle"
    /\ line_buffer = <<>>
    /\ begidx = 0
    /\ endidx = 0
    /\ completion_matches = Unset
    /\ cstate = 0
    /\ ctext = <<>>
    /\ cresult = None
    /\ cfun = NoFunction
    /\ computes = 0

\* the shell: the PrinterThread is running, start() is entered, producer threads
\* are started by command handlers
Init ==
    /\ InitCommon
    /\ InitIdle
    /\ self_attrs = SelfAttrs
    /\ parse_in = <<>>
    /\ parse_out = Pending
    /\ current_module \in Modules
    /\ spawned = {}
    /\ sent = [p \in Spawnable |-> 0]

Next ==
    \/ Shell
    \/ \E p \in Spawnable : SpawnedPut(p)
    \/ Worker

Spec == Init /\ [][Next]_vars

\* the channel: NProducers producer threads are already running when start()
\* prints the banner and performs its first join()
InitChannel ==
    /\ InitCommon
    /\ InitIdle
    /\ self_attrs = SelfAttrs
    /\ parse_in = <<>>
    /\ parse_out = Pending
    /\ current_module = "None"
    /\ spawned = Producers
    /\ sent = [p \in Producers |-> 0]

NextChannel ==
    \/ \E p \in Producers : ProducerPut(p)
    \/ WorkerGet
    \/ WorkerPrint
    \/ WorkerTaskDone
    \/ PrintBanner
    \/ InitialJoin

SpecChannel == InitChannel /\ [][NextChannel]_vars

\* start() in a session in which no KeyboardInterrupt is delivered
ShellQuiet ==
    \/ PrintBanner
    \/ InitialJoin
    \/ \E line \in InputLines : ReadLine(line)
    \/ ReadEOF
    \/ Resolve
    \/ Dispatch
    \/ \E p \in Spawnable : HandlerSpawn(p)
    \/ \E m \in Modules : HandlerSetModule(m)
    \/ HandlerReturn
    \/ \E e \in HandlerExceptions : HandlerRaise(e)
    \/ ExceptError
    \/ ExceptEOF
    \/ FinallyJoin

NextLive ==
    \/ ShellQuiet
    \/ \E p \in Spawnable : SpawnedPut(p)
    \/ Worker

\* the uninterrupted shell with a fairly scheduled PrinterThread (its loop is
\* one sequential thread) and a main thread that leaves join() once it can;
\* producers and the user are not obliged to act
SpecLive ==
    /\ Init
    /\ [][NextLive]_vars
    /\ WF_vars(Worker)
    /\ WF_vars(InitialJoin \/ FinallyJoin)

\* the pure functions: parse_line on every short line, commands() on each shell
InitPure ==
    /\ InitCommon
    /\ InitIdle
    /\ parse_in \in Lines
    /\ parse_out = Pending
    /\ self_attrs \in ShellClasses
    /\ current_module \in Modules
    /\ spawned = {}
    /\ sent = [p \in Spawnable |-> 0]

NextPure ==
    \/ ParseLine
    \/ Commands

SpecPure == InitPure /\ [][NextPure]_vars

\* completion: readline holds a line and a cursor, and pulls the candidates
BufferAlphabet == {"p", "q", "m", " ", ";"}

Buffers == UNION {[1..n -> BufferAlphabet] : n \in 0..MaxBuf}

\* a candidate list left by an earlier session
Stale == <<<<"s">>>>

InitComplete ==
    /\ InitCommon
    /\ self_attrs \in ShellClasses
    /\ current_module \in Modules
    /\ spawned = {}
    /\ sent = [p \in Spawnable |-> 0]
    /\ parse_in = <<>>
    /\ parse_out = Pending
    /\ listed = <<>>
    /\ epc = "idle"
    /\ line_buffer \in Buffers
    /\ endidx \in 0..Len(line_buffer)
    /\ begidx = readline_begidx(line_buffer, endidx)
    /\ completion_matches \in {Unset, Stale}
    /\ cstate = 0
    /\ ctext = <<>>
    /\ cresult = None
    /\ cfun = NoFunction
    /\ computes = 0

NextComplete ==
    \/ CompleteFirst
    \/ \E text \in {Word, OtherText} : CompleteNext(text)

SpecComplete == InitComplete /\ [][NextComplete]_vars

\* ---------------------------------------------------------------- properties
Name(c) == CommandPrefix \o c

\* s contains t as a contiguous substring
Contains(s, t) ==
    \E i \in 1..(Len(s) - Len(t) + 1) : SubSeq(s, i, i + Len(t) - 1) = t

\* a step in which join() returns to its caller (not one that leaves it by an
\* exception)
JoinReturnStep == pc \in Joins /\ pc' # pc /\ intr' = intr

\* C1: in every interleaving of the producer threads and the PrinterThread, the
\* requests of one producer are written in the order that producer enqueued them
C1_ProducerOrder ==
    \A i, j \in 1..Len(written) :
        (i < j /\ written[i].thread = written[j].thread)
            => written[i].content < written[j].content

\* all requests of all producers written, with two producers interleaved
C1_Witness ==
    /\ Len(written) = NProducers * K
    /\ written[1].thread # written[2].thread

\* C2: join() returns only when the queue is empty and the write of the last
\* dequeued request is complete: never between a get() and the end of its print()
C2_NoFalsePositiveDrain ==
    [][JoinReturnStep =>
          /\ queue = <<>>
          /\ cur = NoReq
          /\ wpc = "get"
          /\ written = arrived]_vars

\* the main thread is in join() with the queue empty and a write still in flight
C2_Witness ==
    /\ pc = "finally_join"
    /\ queue = <<>>
    /\ wpc = "print"
    /\ \A p \in spawned : sent[p] = Burst

\* C3 as stated: whenever the prompt is issued no request is enqueued and not yet
\* fully written
C3_NoPendingAtPrompt == pc = "read" => unfinished_tasks = 0

\* C3 amended: whenever the prompt is issued, every request enqueued before the
\* preceding join() returned has been written, and whatever is pending was
\* enqueued after it by a thread other than the main thread
C3_PromptAfterDrain ==
    pc = "read" =>
        /\ Len(written) >= drained
        /\ SubSeq(written, 1, drained) = SubSeq(arrived, 1, drained)
        /\ \A i \in (drained + 1)..Len(arrived) : arrived[i].thread # MainThread

\* the prompt is issued after a drain that had output to wait for, and a request
\* of a producer thread is pending
C3_Witness ==
    /\ pc = "read"
    /\ drained > 0
    /\ unfinished_tasks > 0

\* C4 as stated: a write error does not end the worker
C4_WorkerSurvivesWriteError == wpc # "dead"

\* C5: the loop reaches the prompt only out of a completed join(), every way out
\* of the try body and of the except clauses leads into the finally join(), and
\* start() is left from an iteration only through that join()
C5_DrainEveryIteration ==
    [][/\ (pc' = "read" /\ pc # "read")
            => (pc \in Joins /\ unfinished_tasks = 0)
       /\ (pc \in (TryBody \cup ExceptClauses) /\ pc' \notin (TryBody \cup ExceptClauses))
            => pc' = "finally_join"
       /\ (pc' = "Terminated" /\ pc # "Terminated")
            => (pc = "finally_join" /\ unfinished_tasks = 0)
       /\ (pc' = "Propagated" /\ pc # "Propagated" /\ intr' = intr)
            => (pc = "finally_join" /\ unfinished_tasks = 0)]_vars

\* an unclassified handler fault left start() after the drain
C5_Witness ==
    /\ pc = "Propagated"
    /\ outcome = "fault"
    /\ intr = 0

\* C6 as stated: an interrupt raised while a handler runs or a drain blocks does
\* not abort the handler or the drain
C6_InterruptCancelsOnlyRead ==
    [][(intr' # intr /\ pc \in ({"handler"} \cup Joins)) => pc' = pc]_vars

\* C6 amended: an interrupt raised anywhere in the try body (the read, the
\* resolution or the running handler) aborts it and is swallowed by the
\* KeyboardInterrupt clause, after which the loop drains and continues; an
\* interrupt raised while join() blocks aborts the join and leaves start()
C6_InterruptAborts ==
    [][/\ (intr' # intr /\ pc \in TryBody) => pc' = "except_kbd"
       /\ (intr' # intr /\ pc \in Joins)
            => (pc' = "Propagated" /\ exc' = "KeyboardInterrupt")
       /\ (pc = "except_kbd" /\ pc' # pc /\ intr' = intr)
            => (pc' = "finally_join" /\ after' = "loop")]_vars

\* a running handler was interrupted
C6_Witness ==
    /\ pc = "except_kbd"
    /\ calls # <<>>

\* C7: the handler about to be called is the built-in whenever the shell has
\* command_<command>, also when the module has one too; otherwise it is the
\* current module's
C7_BuiltinPrecedence ==
    pc = "dispatch" =>
        /\ Name(command) \in SelfAttrs
             => handler = [ok |-> TRUE, obj |-> "self", name |-> Name(command)]
        /\ Name(command) \notin SelfAttrs
             => /\ current_module # "None"
                /\ Name(command) \in Attrs(current_module)
                /\ handler = [ok |-> TRUE, obj |-> current_module,
                              name |-> Name(command)]

\* a command both the shell and the current module provide is about to be called
C7_Witness ==
    /\ pc = "dispatch"
    /\ Name(command) \in SelfAttrs
    /\ Name(command) \in Attrs(current_module)

Unprovided == command # <<>> /\ Name(command) \notin (SelfAttrs \cup Attrs(current_module))

\* C8: resolving a command neither the shell nor the current module provides
\* raises the error whose message contains the command text, and no handler is
\* invoked for that line
C8_UnknownCommand ==
    /\ [][(pc = "parsed" /\ Unprovided /\ pc' # pc /\ intr' = intr)
            => /\ pc' = "except_err"
               /\ exc' = "icssploitException"
               /\ Contains(err', command)
               /\ calls' = <<>>]_vars
    /\ [](outcome = "unknown" => (calls = <<>> /\ handler = NoHandler))

\* a module command typed while no module is set, reported as unknown
C8_Witness ==
    /\ pc = "except_err"
    /\ outcome = "unknown"
    /\ current_module = "None"
    /\ command = <<"m">>

Recovered == {"unknown", "domain"}

\* C9: an UnknownCommand or DomainError is printed, the loop drains and returns
\* to the prompt; the error never leaves start() and never terminates the loop
C9_RecoveredErrorsContinue ==
    /\ [](pc = "Propagated" => exc # "icssploitException")
    /\ [](outcome \in Recovered => pc # "Terminated")
    /\ [][(pc = "except_err" /\ pc' # pc /\ intr' = intr)
            => /\ pc' = "finally_join"
               /\ after' = "loop"
               /\ Len(arrived') = Len(arrived) + 1]_vars
    /\ [][(pc = "finally_join" /\ outcome \in Recovered /\ after = "loop" /\ JoinReturnStep)
            => pc' = "read"]_vars

\* the prompt is reached again after a handler raised a DomainError
C9_Witness ==
    /\ pc = "read"
    /\ outcome = "domain"

\* C10: end-of-input at the read enters the EOFError clause, which emits the
\* shutdown notice and breaks; after the drain start() returns; from the
\* end-of-input on there is no prompt and no dispatch
C10_EndOfInputTerminates ==
    /\ [][(pc = "read" /\ exc' = "EOFError") => pc' = "except_eof"]_vars
    /\ [][(pc = "except_eof" /\ pc' # pc /\ intr' = intr)
            => /\ pc' = "finally_join"
               /\ after' = "break"
               /\ Len(arrived') = Len(arrived) + 2]_vars
    /\ [][(pc = "finally_join" /\ after = "break" /\ JoinReturnStep)
            => pc' = "Terminated"]_vars
    /\ [][outcome = "eof" => (outcome' = "eof" /\ pc' \notin TryBody)]_vars

\* start() returned after end-of-input at the prompt, the notice written
C10_Witness ==
    /\ pc = "Terminated"
    /\ calls = <<>>
    /\ iter > 0
    /\ written = arrived

IsSpaceFree(s) == \A i \in 1..Len(s) : s[i] \notin Whitespace

\* index of the first whitespace character of s, 0 if none
FirstWhitespace(s) ==
    IF IsSpaceFree(s) THEN 0
    ELSE CHOOSE i \in 1..Len(s) :
            s[i] \in Whitespace /\ \A j \in 1..(i - 1) : s[j] \notin Whitespace

C12_PullProtocol ==
    /\ [](epc = "pulling" => computes = 1)
    /\ [](epc = "pulling" =>
            cresult = IF cstate < Len(completion_matches)
                      THEN completion_matches[cstate + 1]
                      ELSE None)
    /\ [][computes' # computes => cstate' = 0]_vars
    /\ [][epc = "pulling" => completion_matches' = completion_matches]_vars

\* a pull past the end of a list of two candidates, with another text
C12_Witness ==
    /\ epc = "pulling"
    /\ Len(completion_matches) = 2
    /\ cstate = 3
    /\ ctext # Word
    /\ cresult = None

\* C13: at command position the candidates are the entries of
\* suggested_commands() that start with the fragment, none missing, none added,
\* in the order of suggested_commands(); all of them for the empty fragment
C13_CommandPositionFilter ==
    (epc = "pulling" /\ cfun.kind = "raw") =>
        LET m == completion_matches
            sugg == suggested_commands
        IN  /\ \A i \in 1..Len(m) :
                  Len(Word) <= Len(m[i]) /\ SubSeq(m[i], 1, Len(Word)) = Word
            /\ \A j \in 1..Len(sugg) :
                  (Len(Word) <= Len(sugg[j]) /\ SubSeq(sugg[j], 1, Len(Word)) = Word)
                      => \E i \in 1..Len(m) : m[i] = sugg[j]
            /\ \E f \in [1..Len(m) -> 1..Len(sugg)] :
                  /\ \A i \in 1..Len(m) : sugg[f[i]] = m[i]
                  /\ \A i, k \in 1..Len(m) : i < k => f[i] < f[k]
            /\ Word = <<>> => m = sugg

\* the fragment "p" keeps two of the three suggested commands
C13_Witness ==
    /\ epc = "pulling"
    /\ cfun.kind = "raw"
    /\ Word = <<"p">>
    /\ Len(suggested_commands) = 3
    /\ Len(completion_matches) = 2

\* the number of leading whitespace characters of s
Leading(s) ==
    CHOOSE n \in 0..Len(s) :
        /\ \A i \in 1..n : s[i] \in Whitespace
        /\ n < Len(s) => s[n + 1] \notin Whitespace

\* C14: at argument position the candidates are exactly what the shell's
\* complete_<c> returns for (fragment, line, start, end), and none when the shell
\* has no complete_<c>, also when the current module has one
C14_ArgumentPositionCompleter ==
    (epc = "pulling" /\ begidx - Leading(line_buffer) > 0) =>
        LET line == SubSeq(line_buffer, Leading(line_buffer) + 1, Len(line_buffer))
            name == CompletePrefix \o parse_line(line)[1]
        IN  IF name \in self_attrs
            THEN completion_matches =
                    <<name, Word, line, Rep(begidx - Leading(line_buffer)),
                      Rep(endidx - Leading(line_buffer))>>
            ELSE completion_matches = <<>>

\* the argument of a command whose completer only the current module defines
C14_Witness ==
    /\ epc = "pulling"
    /\ begidx - Leading(line_buffer) > 0
    /\ parse_line(line_buffer)[1] = <<"m">>
    /\ current_module = "module"
    /\ CompletePrefix \o <<"m">> \in Attrs(current_module)
    /\ completion_matches = <<>>

\* the request the worker holds and has not written yet
InFlight == IF wpc \in {"print", "dead"} THEN <<cur>> ELSE <<>>

\* C16: what the worker has written is a prefix of the arrival sequence; the
\* arrivals are the written requests, then the one in flight, then the queue, so
\* none is lost or duplicated, and each is written once
C16_WrittenPrefixOfArrived ==
    /\ Len(written) <= Len(arrived)
    /\ written = SubSeq(arrived, 1, Len(written))
    /\ arrived = written \o InFlight \o queue
    /\ \A i, j \in 1..Len(written) : i # j => written[i] # written[j]

\* two producers' requests written, one more in flight and others queued
C16_Witness ==
    /\ Len(written) >= 2
    /\ written[1].thread # written[2].thread
    /\ wpc = "print"
    /\ queue # <<>>

\* C17 as stated: the loop terminates only on an end-of-input of the read step,
\* never on one raised while a handler was executing
C17_TerminatedOnlyFromRead == pc = "Terminated" => calls = <<>>

\* C17 amended: Terminated is entered only out of the drain that follows the
\* EOFError clause, and an EOFError reaches that clause from the read step and
\* from the executing handler alike; nothing else terminates the loop
C17_TerminatedOnlyByEOF ==
    /\ [](pc = "Terminated" => outcome = "eof")
    /\ [][(pc' = "Terminated" /\ pc # "Terminated")
            => (pc = "finally_join" /\ after = "break")]_vars
    /\ [][(exc' = "EOFError" /\ exc # "EOFError")
            => (pc \in {"read", "handler"} /\ pc' = "except_eof")]_vars
    /\ [][(pc = "except_eof" /\ pc' # pc /\ intr' = intr) => after' = "break"]_vars

\* the loop terminated on an EOFError raised by a handler
C17_Witness ==
    /\ pc = "Terminated"
    /\ calls # <<>>

\* C18: an empty command resolves and dispatches nothing, raises nothing, and
\* the loop drains and prompts again; a non-empty command is resolved once and,
\* when that succeeds, its handler is invoked once with the parsed argument
C18_EmptyCommandSkipsDispatch ==
    /\ [][(pc = "parsed" /\ command = <<>> /\ pc' # pc /\ intr' = intr)
            => /\ pc' = "finally_join"
               /\ after' = "loop"
               /\ exc' = "none"
               /\ handler' = NoHandler
               /\ calls' = <<>>]_vars
    /\ [](outcome = "empty" => (calls = <<>> /\ handler = NoHandler /\ err = <<>>))
    /\ [][(pc = "finally_join" /\ outcome = "empty" /\ JoinReturnStep)
            => pc' = "read"]_vars
    /\ [][(pc = "parsed" /\ command # <<>> /\ pc' # pc /\ intr' = intr)
            => \/ pc' = "dispatch" /\ handler'.ok /\ calls' = <<>>
               \/ pc' = "except_err" /\ handler' = NoHandler /\ calls' = <<>>]_vars
    /\ [][(pc = "dispatch" /\ pc' # pc /\ intr' = intr)
            => (pc' = "handler" /\ Len(calls') = 1)]_vars
    /\ [](Len(calls) <= 1)
    /\ [](calls # <<>> =>
            /\ command # <<>>
            /\ calls[1].handler = handler
            /\ calls[1].handler.ok
            /\ calls[1].handler.name = Name(command)
            /\ calls[1].arg = args)

\* the prompt is reached again after a blank line
C18_Witness ==
    /\ pc = "read"
    /\ outcome = "empty"
    /\ iter > 0
    /\ calls = <<>>

C19_CommandPositionIffZero ==
    epc = "pulling" =>
        (cfun.kind = "raw" <=> begidx - Leading(line_buffer) = 0)

\* C19 amended: command position exactly when that difference is 0 or negative
\* (the cursor is inside the leading whitespace), argument position exactly when
\* it is positive; a fragment that starts at the first character after the
\* leading whitespace is completed as a command
C19_PositionByOffset ==
    epc = "pulling" =>
        /\ cfun.kind = "raw" <=> begidx - Leading(line_buffer) <= 0
        /\ cfun.kind \in {"default", "method"} <=> begidx - Leading(line_buffer) > 0
        /\ begidx = Leading(line_buffer) => cfun.kind = "raw"

\* a first token typed after leading whitespace is completed as a command
C19_Witness ==
    /\ epc = "pulling"
    /\ Leading(line_buffer) > 0
    /\ begidx = Leading(line_buffer)
    /\ Word # <<>>
    /\ cfun.kind = "raw"

\* C15 as stated: commands() lists <name> for every built-in command_<name>, and
\* every listed name resolves to a built-in handler
C15_CommandsListsBuiltins ==
    listed # <<>> =>
        /\ \A n \in self_attrs :
              IsCommandName(n) =>
                \E i \in 1..Len(listed) :
                    listed[i] = SubSeq(n, Len(CommandPrefix) + 1, Len(n))
        /\ \A i \in 1..Len(listed) :
              LET r == get_command_handler(listed[i], current_module)
              IN  ~r.raised /\ r.value.obj = "self"

====
